---- MODULE Spec2Model ----
(***************************************************************************)
(* The docker-compose command layer of tutor (tutor/commands/compose.py).  *)
(*                                                                         *)
(* A behaviour is one run of the tutor process, which handles one command. *)
(* A handler assembles the tokens of an engine call and blocks in          *)
(* context.docker_compose until the engine returns an exit status; a       *)
(* non-zero status is raised as an error that unwinds every handler on the *)
(* stack.  The variable events records, in order, the alerts printed, the  *)
(* engine calls issued and their returns.                                  *)
(*                                                                         *)
(* A Python str whose characters the code inspects, formats or joins is a  *)
(* Text: a tuple of one-character strings.  Str turns a Text into the      *)
(* token handed to the engine.                                             *)
(***************************************************************************)
EXTENDS Naturals, Sequences, FiniteSets, TLC

VARIABLES tty, config, jobsDef, existing, cmd, pc, after, error, events

env == <<tty, config, jobsDef, existing>>
vars == <<tty, config, jobsDef, existing, cmd, pc, after, error, events>>

----------------------------------------------------------------------------
(* Bounds of the model *)

\* longest tuple of service names given to start/stop/reboot/restart/logs
MaxServices == 2
\* longest argument list given to dc/run/exec
MaxArgs == 2
\* longest command text given to run_job
MaxCmdLen == 2

----------------------------------------------------------------------------
(* Text *)

RECURSIVE Str(_)
Str(t) == IF t = <<>> THEN "" ELSE Head(t) \o Str(Tail(t))

Contains(t, ch) == \E i \in DOMAIN t : t[i] = ch

HasPrefix(t, p) == Len(t) >= Len(p) /\ SubSeq(t, 1, Len(p)) = p

IsSubstring(s, t) ==
    \E i \in 0..Len(t) : i + Len(s) <= Len(t) /\ SubSeq(t, i + 1, i + Len(s)) = s

SeqsUpTo(S, n) == UNION {[1..k -> S] : k \in 0..n}

----------------------------------------------------------------------------
(* Inputs *)

root == <<"/", "r">>

\* service names a user gives to start, stop, reboot and restart
ServiceNames == {"all", "openedx", "lms"}
ServiceLists == SeqsUpTo(ServiceNames, MaxServices)

\* service names given to logs (they travel through dc_command as Text)
LogServiceLists == SeqsUpTo({<<"l", "m", "s">>, <<"c", "m", "s">>}, MaxServices)
TailOptions == {<<>>, <<0>>, <<5>>}

\* logical services whose jobs are run, and the command texts run in them
JobServices == {<<"l", "m", "s">>, <<"m", "y", "s", "q", "l">>}
Alphabet == {"a", " ", "\n"}
Commands == SeqsUpTo(Alphabet, MaxCmdLen)

\* arguments a user gives to dc, run and exec
ArgTokens == {<<"-", "v">>, <<"-", "-", "v", "o", "l", "u", "m", "e", "=", "f", "o", "o">>,
              <<"-", "-", "v", "o", "l", "u", "m", "e", "=", "b", "a", "r">>,
              <<"-", "-", "v", "o", "l", "u", "m", "e", "=", "/", "a", ":", "b">>, <<"l", "m", "s">>}
ArgLists == SeqsUpTo(ArgTokens, MaxArgs) \ {<<>>}
DcCommands == {<<"p", "s">>, <<"r", "u", "n">>}

----------------------------------------------------------------------------
(* Collaborators outside compose.py *)

\* tutor_env.pathjoin: the path of a file of the environment under root
pathjoin(r, a, b) == r \o <<"/">> \o a \o <<"/">> \o b

\* bindmounts.get_path: <root>/volumes/<name>
get_path(r, name) == r \o <<"/", "v", "o", "l", "u", "m", "e", "s", "/">> \o name

\* bindmounts.parse_volumes: the values of the volume flags (-v X, --volume X,
\* --volume=X), and the other tokens in their order.  A flag with no value
\* after it is a usage error.
RECURSIVE parse_volumes(_)
parse_volumes(args) ==
    IF args = <<>> THEN [ok |-> TRUE, volumes |-> <<>>, rest |-> <<>>]
    ELSE IF Head(args) \in {<<"-", "v">>, <<"-", "-", "v", "o", "l", "u", "m", "e">>}
    THEN IF Len(args) < 2 THEN [ok |-> FALSE, volumes |-> <<>>, rest |-> <<>>]
         ELSE LET r == parse_volumes(SubSeq(args, 3, Len(args)))
              IN  [ok |-> r.ok, volumes |-> <<args[2]>> \o r.volumes, rest |-> r.rest]
    ELSE IF HasPrefix(Head(args), <<"-", "-", "v", "o", "l", "u", "m", "e", "=">>)
    THEN LET r == parse_volumes(Tail(args))
             v == SubSeq(Head(args), 10, Len(Head(args)))
         IN  [ok |-> r.ok, volumes |-> <<v>> \o r.volumes, rest |-> r.rest]
    ELSE LET r == parse_volumes(Tail(args))
         IN  [ok |-> r.ok, volumes |-> r.volumes, rest |-> <<Head(args)>> \o r.rest]

----------------------------------------------------------------------------
(* State *)

NoCommand ==
    [name |-> "none", detach |-> FALSE, services |-> <<>>, service |-> <<>>,
     command |-> <<>>, args |-> <<>>, follow |-> FALSE, tail |-> <<>>]

CallEv(tokens) == [kind |-> "call", tokens |-> tokens, status |-> 0, text |-> <<>>]
ReturnEv(status) == [kind |-> "return", tokens |-> <<>>, status |-> status, text |-> <<>>]
AlertEv(text) == [kind |-> "alert", tokens |-> <<>>, status |-> 0, text |-> text]

JobDefinitions ==
    {[parsed |-> FALSE, services |-> {}]}
        \cup {[parsed |-> TRUE, services |-> s] : s \in SUBSET {"lms-job", "lms"}}

Init ==
    /\ tty \in BOOLEAN
    /\ config \in [RUN_LMS : BOOLEAN, RUN_CMS : BOOLEAN]
    /\ jobsDef \in JobDefinitions
    /\ existing \in SUBSET {get_path(root, <<"f", "o", "o">>),
                            get_path(root, <<"b", "a", "r">>)}
    /\ cmd = NoCommand
    /\ pc = "idle"
    /\ after = <<>>
    /\ error = "none"
    /\ events = <<>>

\* a tutor process handles the one command it was started with
Ready == pc = "idle"

\* context.docker_compose(root, config, *tokens): the handler of command c,
\* having printed pre, issues the call and blocks; k is what the handlers on
\* the stack still have to do once it returns
Invoke(c, pre, tokens, k) ==
    /\ cmd' = c
    /\ events' = Append(pre, CallEv(tokens))
    /\ pc' = "engine"
    /\ after' = k
    /\ error' = "none"
    /\ UNCHANGED env

\* the handler of command c raises err before any engine call
Raise(c, err) ==
    /\ cmd' = c
    /\ events' = <<>>
    /\ pc' = "failed"
    /\ after' = <<>>
    /\ error' = err
    /\ UNCHANGED env

----------------------------------------------------------------------------
(* start, stop, reboot *)

start_command(detach, services) ==
    <<"up", "--remove-orphans">> \o (IF detach THEN <<"-d">> ELSE <<>>) \o services

stop_command(services) == <<"stop">> \o services

start ==
    \E detach \in BOOLEAN, services \in ServiceLists :
        /\ Ready
        /\ Invoke([NoCommand EXCEPT !.name = "start", !.detach = detach,
                                    !.services = services],
                  <<>>, start_command(detach, services), <<>>)

stop ==
    \E services \in ServiceLists :
        /\ Ready
        /\ Invoke([NoCommand EXCEPT !.name = "stop", !.services = services],
                  <<>>, stop_command(services), <<>>)

\* faulty variant: reboot returns once the platform is stopped
reboot_continuation_none == <<>>

\* what reboot still has to do when stop.callback returns
reboot_continuation == <<"start">>

reboot ==
    \E detach \in BOOLEAN, services \in ServiceLists :
        /\ Ready
        /\ Invoke([NoCommand EXCEPT !.name = "reboot", !.detach = detach,
                                    !.services = services],
                  <<>>, stop_command(services), reboot_continuation)

\* faulty variant: the start phase forgets the services it was given
reboot_start_without_services ==
    /\ pc = "start"
    /\ events' = Append(events, CallEv(start_command(cmd.detach, <<>>)))
    /\ pc' = "engine"
    /\ UNCHANGED <<cmd, after, error, env>>

\* reboot's second statement: start.callback(detach, services)
reboot_start ==
    /\ pc = "start"
    /\ events' = Append(events, CallEv(start_command(cmd.detach, cmd.services)))
    /\ pc' = "engine"
    /\ UNCHANGED <<cmd, after, error, env>>

\* faulty variant: a failing call is swallowed while there is more to do
Resume_swallowing_failure(status, k) ==
    IF k # <<>> THEN Head(k) ELSE IF status # 0 THEN "failed" ELSE "done"

\* where control goes when a blocking engine call returns with status and k
\* is still to do: a non-zero status is raised through every frame
Resume(status, k) ==
    IF status # 0 THEN "failed" ELSE IF k = <<>> THEN "done" ELSE Head(k)

docker_compose_returns ==
    \E status \in {0, 1} :
        /\ pc = "engine"
        /\ events' = Append(events, ReturnEv(status))
        /\ pc' = Resume(status, after)
        /\ after' = IF pc' \in {"done", "failed"} THEN <<>> ELSE Tail(after)
        /\ error' = IF status # 0 THEN "EngineInvocationError" ELSE error
        /\ UNCHANGED <<cmd, env>>

----------------------------------------------------------------------------
(* restart *)

\* faulty variant: the worker is put before its main process
RECURSIVE restart_loop_worker_first(_, _, _)
restart_loop_worker_first(command, services, cfg) ==
    IF services = <<>> THEN command
    ELSE LET service == Head(services)
             lms == IF cfg.RUN_LMS THEN <<"lms-worker", "lms">> ELSE <<>>
             cms == IF cfg.RUN_CMS THEN <<"cms-worker", "cms">> ELSE <<>>
         IN  restart_loop_worker_first(
                 IF service = "openedx" THEN command \o lms \o cms
                 ELSE Append(command, service),
                 Tail(services), cfg)

RECURSIVE restart_loop(_, _, _)
restart_loop(command, services, cfg) ==
    IF services = <<>> THEN command
    ELSE LET service == Head(services)
             lms == IF cfg.RUN_LMS THEN <<"lms", "lms-worker">> ELSE <<>>
             cms == IF cfg.RUN_CMS THEN <<"cms", "cms-worker">> ELSE <<>>
         IN  restart_loop(IF service = "openedx" THEN command \o lms \o cms
                          ELSE Append(command, service),
                          Tail(services), cfg)

\* faulty variant: "all" is looked for in the first position only
restart_command_all_first(services, cfg) ==
    IF services # <<>> /\ services[1] = "all" THEN <<"restart">>
    ELSE restart_loop(<<"restart">>, services, cfg)

restart_command(services, cfg) ==
    IF \E i \in DOMAIN services : services[i] = "all" THEN <<"restart">>
    ELSE restart_loop(<<"restart">>, services, cfg)

restart ==
    \E services \in ServiceLists :
        /\ Ready
        /\ Invoke([NoCommand EXCEPT !.name = "restart", !.services = services],
                  <<>>, restart_command(services, config), <<>>)

----------------------------------------------------------------------------
(* ScriptRunner.run_job, createuser *)

jobs_path == pathjoin(root, <<"l", "o", "c", "a", "l">>,
                      <<"d", "o", "c", "k", "e", "r", "-", "c", "o", "m", "p", "o", "s", "e",
                        ".", "j", "o", "b", "s", ".", "y", "m", "l">>)

job_service_name(service) == service \o <<"-", "j", "o", "b">>

opts(is_a_tty) == IF is_a_tty THEN <<>> ELSE <<"-T">>

has_job_service(service, def) == Str(job_service_name(service)) \in def.services

\* faulty variant: the job-compose file is selected but the service itself is run
job_command_targeting_service(service, command, is_a_tty) ==
    <<"-f", Str(jobs_path), "run">> \o opts(is_a_tty)
        \o <<"--rm", Str(service), "sh", "-e", "-c", Str(command)>>

job_command(service, command, is_a_tty) ==
    <<"-f", Str(jobs_path), "run">> \o opts(is_a_tty)
        \o <<"--rm", Str(job_service_name(service)), "sh", "-e", "-c", Str(command)>>

\* faulty variant: the fallback still selects the job-compose file
legacy_command_selecting_jobs_file(service, command, is_a_tty) ==
    <<"-f", Str(jobs_path), "run">> \o opts(is_a_tty)
        \o <<"--rm", Str(service), "sh", "-e", "-c", Str(command)>>

legacy_command(service, command, is_a_tty) ==
    <<"run">> \o opts(is_a_tty)
        \o <<"--rm", Str(service), "sh", "-e", "-c", Str(command)>>

\* faulty variant: the command is formatted into the warning as it is
replace_nothing(command) == command

\* command.replace("\n", "\n    ")
RECURSIVE replace(_)
replace(command) ==
    IF command = <<>> THEN <<>>
    ELSE (IF Head(command) = "\n" THEN <<"\n", " ", " ", " ", " ">>
          ELSE <<Head(command)>>) \o replace(Tail(command))

\* the text given to fmt.echo_alert
alert_text(service, command) ==
    <<"T", "h", "e", " ", "'">>
    \o job_service_name(service) \o
    <<"'", " ", "s", "e", "r", "v", "i", "c", "e", " ", "d", "o", "e", "s",
      " ", "n", "o", "t", " ", "e", "x", "i", "s", "t", " ", "i", "n", " ">>
    \o jobs_path \o
    <<".", " ", "T", "h", "i", "s", " ", "m", "i", "g", "h", "t", " ", "b",
      "e", " ", "c", "a", "u", "s", "e", "d", " ", "b", "y", " ", "a", "n",
      " ", "o", "l", "d", "e", "r", " ", "p", "l", "u", "g", "i", "n", ".",
      " ", "T", "u", "t", "o", "r", " ", "s", "w", "i", "t", "c", "h", "e",
      "d", " ", "t", "o", " ", "a", " ", "j", "o", "b", " ", "r", "u", "n",
      "n", "e", "r", " ", "m", "o", "d", "e", "l", " ", "f", "o", "r", " ",
      "r", "u", "n", "n", "i", "n", "g", " ", "o", "n", "e", "-", "t", "i",
      "m", "e", " ", "c", "o", "m", "m", "a", "n", "d", "s", ",", " ", "s",
      "u", "c", "h", " ", "a", "s", " ", "d", "a", "t", "a", "b", "a", "s",
      "e", " ", "i", "n", "i", "t", "i", "a", "l", "i", "s", "a", "t", "i",
      "o", "n", ".", " ", "F", "o", "r", " ", "t", "h", "e", " ", "r", "e",
      "c", "o", "r", "d", ",", " ", "t", "h", "i", "s", " ", "i", "s", " ",
      "t", "h", "e", " ", "c", "o", "m", "m", "a", "n", "d", " ", "t", "h",
      "a", "t", " ", "w", "e", " ", "a", "r", "e", " ", "r", "u", "n", "n",
      "i", "n", "g", ":", "\n", "\n", " ", " ", " ", " ">>
    \o replace(command) \o
    <<"\n", "\n", "O", "l", "d", "-", "s", "t", "y", "l", "e", " ", "j", "o",
      "b", " ", "r", "u", "n", "n", "i", "n", "g", " ", "w", "i", "l", "l",
      " ", "b", "e", " ", "d", "e", "p", "r", "e", "c", "a", "t", "e", "d",
      " ", "s", "o", "o", "n", ".", " ", "P", "l", "e", "a", "s", "e", " ",
      "i", "n", "f", "o", "r", "m", " ", "y", "o", "u", "r", " ", "p", "l",
      "u", "g", "i", "n", " ", "m", "a", "i", "n", "t", "a", "i", "n", "e",
      "r", "!">>

\* the body of run_job, called for command c
RunJob(c, service, command) ==
    IF ~jobsDef.parsed THEN Raise(c, "DefinitionParseError")
    ELSE IF has_job_service(service, jobsDef)
    THEN Invoke(c, <<>>, job_command(service, command, tty), <<>>)
    ELSE Invoke(c, <<AlertEv(alert_text(service, command))>>,
                legacy_command(service, command, tty), <<>>)

\* a job run by one of the scripts (initialise, set_theme, import_demo_course)
run_job ==
    \E service \in JobServices, command \in Commands :
        /\ Ready
        /\ RunJob([NoCommand EXCEPT !.name = "run_job", !.service = service,
                                    !.command = command],
                  service, command)

createuser ==
    \E command \in Commands :
        /\ Ready
        /\ RunJob([NoCommand EXCEPT !.name = "createuser", !.service = <<"l", "m", "s">>,
                                    !.command = command],
                  <<"l", "m", "s">>, command)

----------------------------------------------------------------------------
(* dc, run, exec, logs *)

is_named(volume_arg) == ~Contains(volume_arg, ":")

\* faulty variant: the directory of a named directive is never looked for
is_missing_never(volume_arg, ex) == FALSE

\* the named directive whose bind-mount directory is not on disk
is_missing(volume_arg, ex) == is_named(volume_arg) /\ get_path(root, volume_arg) \notin ex

resolve(volume_arg) ==
    IF is_named(volume_arg) THEN get_path(root, volume_arg) \o <<":">> \o volume_arg
    ELSE volume_arg

RECURSIVE volume_loop(_, _)
volume_loop(volumes, ex) ==
    IF volumes = <<>> THEN [ok |-> TRUE, volume_args |-> <<>>]
    ELSE IF is_missing(Head(volumes), ex) THEN [ok |-> FALSE, volume_args |-> <<>>]
    ELSE LET r == volume_loop(Tail(volumes), ex)
         IN  [ok |-> r.ok,
              volume_args |-> IF r.ok
                              THEN <<"--volume", Str(resolve(Head(volumes)))>>
                                       \o r.volume_args
                              ELSE <<>>]

RECURSIVE StrAll(_)
StrAll(ts) == IF ts = <<>> THEN <<>> ELSE <<Str(Head(ts))>> \o StrAll(Tail(ts))

\* the body of dc_command, called for command c
DcCommand(c, command, args) ==
    LET p == parse_volumes(args)
        v == volume_loop(p.volumes, existing)
    IN  IF ~p.ok THEN Raise(c, "UsageError")
        ELSE IF ~v.ok THEN Raise(c, "ConfigurationError")
        ELSE Invoke(c, <<>>, <<Str(command)>> \o v.volume_args \o StrAll(p.rest), <<>>)

dc_command ==
    \E command \in DcCommands, args \in ArgLists :
        /\ Ready
        /\ DcCommand([NoCommand EXCEPT !.name = "dc", !.command = command,
                                       !.args = args],
                     command, args)

run_extra_args(is_a_tty) ==
    <<<<"-", "-", "r", "m">>>> \o (IF ~is_a_tty THEN <<<<"-", "T">>>> ELSE <<>>)

run ==
    \E args \in ArgLists :
        /\ Ready
        /\ DcCommand([NoCommand EXCEPT !.name = "run", !.args = args],
                     <<"r", "u", "n">>, run_extra_args(tty) \o args)

execute ==
    \E args \in ArgLists :
        /\ Ready
        /\ DcCommand([NoCommand EXCEPT !.name = "exec", !.args = args],
                     <<"e", "x", "e", "c">>, args)

logs_args(follow, tail, service) ==
    (IF follow THEN <<<<"-", "-", "f", "o", "l", "l", "o", "w">>>> ELSE <<>>)
        \o (IF tail # <<>> THEN <<<<"-", "-", "t", "a", "i", "l">>, <<ToString(tail[1])>>>>
            ELSE <<>>)
        \o service

logs ==
    \E follow \in BOOLEAN, tail \in TailOptions, service \in LogServiceLists :
        /\ Ready
        /\ DcCommand([NoCommand EXCEPT !.name = "logs", !.follow = follow,
                                       !.tail = tail, !.services = service],
                     <<"l", "o", "g", "s">>, logs_args(follow, tail, service))

----------------------------------------------------------------------------

Next ==
    \/ start
    \/ stop
    \/ reboot
    \/ reboot_start
    \/ restart
    \/ run_job
    \/ createuser
    \/ dc_command
    \/ run
    \/ execute
    \/ logs
    \/ docker_compose_returns

Spec == Init /\ [][Next]_vars

----------------------------------------------------------------------------
(* Reading the history *)

Calls == SelectSeq(events, LAMBDA e : e.kind = "call")
Alerts == SelectSeq(events, LAMBDA e : e.kind = "alert")
Returns == SelectSeq(events, LAMBDA e : e.kind = "return")

IsJobRun == cmd.name \in {"run_job", "createuser"}

JobServicePresent ==
    jobsDef.parsed /\ Str(cmd.service \o <<"-", "j", "o", "b">>) \in jobsDef.services

JobServiceAbsent ==
    jobsDef.parsed /\ Str(cmd.service \o <<"-", "j", "o", "b">>) \notin jobsDef.services

NoTtyFlag == IF tty THEN <<>> ELSE <<"-T">>

HasToken(tokens, t) == \E i \in DOMAIN tokens : tokens[i] = t

----------------------------------------------------------------------------
(* Job runner *)

\* C1: when "<s>-job" is a key of the job definition's services, run_job(s, cmd)
\* makes exactly one engine call, with the tokens -f <jobs_path> run [-T] --rm
\* <s>-job sh -e -c cmd; its service operand is "<s>-job" and not s, and no
\* deprecation warning is printed.
C1_JobServiceTargeted ==
    (IsJobRun /\ JobServicePresent) =>
        /\ Len(Calls) = 1
        /\ Calls[1].tokens =
               <<"-f", Str(jobs_path), "run">> \o NoTtyFlag
                   \o <<"--rm", Str(cmd.service) \o "-job", "sh", "-e", "-c",
                        Str(cmd.command)>>
        /\ Calls[1].tokens[Len(Calls[1].tokens) - 4] # Str(cmd.service)
        /\ Alerts = <<>>

C1_Witness ==
    /\ cmd.name = "run_job"
    /\ JobServicePresent
    /\ cmd.command # <<>>
    /\ pc = "done"

\* C2: when "<s>-job" is absent, run_job(s, cmd) prints exactly one deprecation
\* warning and then makes exactly one engine call, run [-T] --rm s sh -e -c cmd,
\* with no -f <jobs_path>; the warning comes before the call, and the absence
\* raises no error.
C2_LegacyFallback ==
    (IsJobRun /\ JobServiceAbsent) =>
        /\ Len(Alerts) = 1
        /\ Len(Calls) = 1
        /\ events[1].kind = "alert"
        /\ events[2].kind = "call"
        /\ Calls[1].tokens =
               <<"run">> \o NoTtyFlag
                   \o <<"--rm", Str(cmd.service), "sh", "-e", "-c", Str(cmd.command)>>
        /\ ~HasToken(Calls[1].tokens, "-f")
        /\ ~HasToken(Calls[1].tokens, Str(jobs_path))
        /\ error \in {"none", "EngineInvocationError"}
        /\ pc = "failed" => events[Len(events)].kind = "return"

C2_Witness ==
    /\ cmd.name = "run_job"
    /\ JobServiceAbsent
    /\ cmd.command # <<>>
    /\ pc = "done"

FirstNewline(t) ==
    CHOOSE i \in DOMAIN t : t[i] = "\n" /\ \A j \in 1..(i - 1) : t[j] # "\n"

RECURSIVE Lines(_)
Lines(t) ==
    IF ~Contains(t, "\n") THEN <<t>>
    ELSE <<SubSeq(t, 1, FirstNewline(t) - 1)>>
             \o Lines(SubSeq(t, FirstNewline(t) + 1, Len(t)))

RECURSIVE IndentedLines(_)
IndentedLines(ls) ==
    IF Len(ls) = 1 THEN <<" ", " ", " ", " ">> \o ls[1]
    ELSE <<" ", " ", " ", " ">> \o ls[1] \o <<"\n">> \o IndentedLines(Tail(ls))

NamesServiceAndFile(text) ==
    /\ IsSubstring(<<"'">> \o cmd.service \o <<"-", "j", "o", "b", "'">>, text)
    /\ IsSubstring(jobs_path, text)

\* C3 as stated: in the legacy fallback the warning contains cmd verbatim, as a
\* contiguous substring, for every command text (also one with newlines), and
\* names the missing job service and the job-compose file.
C3_CommandVerbatim ==
    (IsJobRun /\ JobServiceAbsent) =>
        /\ IsSubstring(cmd.command, Alerts[1].text)
        /\ NamesServiceAndFile(Alerts[1].text)

\* C3, amended: in the legacy fallback the warning contains the lines of cmd in
\* order, each on a line of its own behind four spaces of indentation (four
\* spaces follow every newline of cmd), so cmd is a contiguous substring of it
\* when cmd has no newline; the warning names the missing job service and the
\* job-compose file.
C3_CommandIndented ==
    (IsJobRun /\ JobServiceAbsent) =>
        /\ IsSubstring(<<":", "\n", "\n">> \o IndentedLines(Lines(cmd.command))
                           \o <<"\n", "\n", "O">>,
                       Alerts[1].text)
        /\ ~Contains(cmd.command, "\n") => IsSubstring(cmd.command, Alerts[1].text)
        /\ NamesServiceAndFile(Alerts[1].text)

C3_Witness ==
    /\ IsJobRun
    /\ JobServiceAbsent
    /\ cmd.command = <<"a", "\n">>
    /\ Len(Alerts) = 1
    /\ pc = "done"

----------------------------------------------------------------------------
(* stop, start, reboot *)

StopTokens == <<"stop">> \o cmd.services

UpTokens ==
    <<"up", "--remove-orphans">> \o (IF cmd.detach THEN <<"-d">> ELSE <<>>)
        \o cmd.services

\* C4: reboot(D, S) issues the engine calls of stop(S) followed by start(D, S):
\* first (stop, *S), then (up, --remove-orphans, [-d iff D], *S); the second
\* call is issued only after the first has returned, and at no time are two
\* calls outstanding.
C4_RebootIsStopThenStart ==
    /\ cmd.name = "stop" => Calls = <<CallEv(StopTokens)>>
    /\ cmd.name = "start" => Calls = <<CallEv(UpTokens)>>
    /\ cmd.name = "reboot" =>
           /\ Calls \in {<<CallEv(StopTokens)>>, <<CallEv(StopTokens), CallEv(UpTokens)>>}
           /\ pc = "done" => Len(Calls) = 2
           /\ \A i \in DOMAIN events :
                  (i > 1 /\ events[i].kind = "call") => events[i - 1].kind = "return"
    /\ Len(Calls) - Len(Returns) \in {0, 1}
    /\ Len(Calls) - Len(Returns) = 1 <=> pc = "engine"

C4_Witness ==
    /\ cmd.name = "reboot"
    /\ cmd.detach
    /\ cmd.services = <<"lms", "openedx">>
    /\ Len(Returns) = 2
    /\ pc = "done"

\* C5: when the engine call of reboot's stop phase fails, reboot ends with that
\* error: no up call is issued and nothing is called again.
C5_FailedStopPreventsStart ==
    (cmd.name = "reboot" /\ Len(Returns) >= 1 /\ Returns[1].status # 0) =>
        /\ pc = "failed"
        /\ error = "EngineInvocationError"
        /\ Calls = <<CallEv(StopTokens)>>
        /\ events[Len(events)].kind = "return"
        /\ \A i \in DOMAIN Calls : Calls[i].tokens[1] # "up"

C5_Witness ==
    /\ cmd.name = "reboot"
    /\ Len(Returns) = 1
    /\ Returns[1].status # 0
    /\ pc = "failed"

----------------------------------------------------------------------------
(* restart *)

RequestsAll == \E i \in DOMAIN cmd.services : cmd.services[i] = "all"

\* C6: when "all" is among the requested services, at any position, restart
\* forwards exactly one engine call, restart, with no service operand,
\* whatever the other tokens and the RUN_LMS / RUN_CMS flags are.
C6_RestartAll ==
    (cmd.name = "restart" /\ RequestsAll) => Calls = <<CallEv(<<"restart">>)>>

C6_Witness ==
    /\ cmd.name = "restart"
    /\ cmd.services = <<"openedx", "all">>
    /\ config.RUN_LMS
    /\ pc = "done"

Expansion(token) ==
    IF token = "openedx"
    THEN (IF config.RUN_LMS THEN <<"lms", "lms-worker">> ELSE <<>>)
             \o (IF config.RUN_CMS THEN <<"cms", "cms-worker">> ELSE <<>>)
    ELSE <<token>>

RECURSIVE Expanded(_)
Expanded(tokens) ==
    IF tokens = <<>> THEN <<>>
    ELSE Expanded(SubSeq(tokens, 1, Len(tokens) - 1)) \o Expansion(tokens[Len(tokens)])

Count(flag) == IF flag THEN 1 ELSE 0

\* C7: without "all", the operands restart forwards are the expansions of the
\* requested tokens, concatenated in request order: "openedx" gives lms,
\* lms-worker if RUN_LMS and then cms, cms-worker if RUN_CMS, any other token
\* gives itself.  restart(openedx) alone forwards four operands with both
\* flags, two with one, and none with neither, and that call is still made.
C7_RestartExpansion ==
    (cmd.name = "restart" /\ ~RequestsAll) =>
        /\ Calls = <<CallEv(<<"restart">> \o Expanded(cmd.services))>>
        /\ cmd.services = <<"openedx">> =>
               /\ Len(Calls[1].tokens) =
                      1 + 2 * (Count(config.RUN_LMS) + Count(config.RUN_CMS))
               /\ (config.RUN_LMS /\ config.RUN_CMS) =>
                      Calls[1].tokens =
                          <<"restart", "lms", "lms-worker", "cms", "cms-worker">>
               /\ (config.RUN_LMS /\ ~config.RUN_CMS) =>
                      Calls[1].tokens = <<"restart", "lms", "lms-worker">>
               /\ (~config.RUN_LMS /\ config.RUN_CMS) =>
                      Calls[1].tokens = <<"restart", "cms", "cms-worker">>
               /\ pc # "failed" \/ Returns # <<>>

C7_Witness ==
    /\ cmd.name = "restart"
    /\ cmd.services = <<"lms", "openedx">>
    /\ config.RUN_LMS
    /\ config.RUN_CMS
    /\ pc = "done"

----------------------------------------------------------------------------
(* dc, run, exec, logs *)

Directives == parse_volumes(cmd.args).volumes

Named(d) == \A i \in DOMAIN d : d[i] # ":"

OnDisk(d) == root \o <<"/", "v", "o", "l", "u", "m", "e", "s", "/">> \o d \in existing

Forwarded(d) ==
    IF Named(d)
    THEN Str(root) \o "/volumes/" \o Str(d) \o ":" \o Str(d)
    ELSE Str(d)

\* C8: in dc, every extracted volume directive without ":" is forwarded as
\* --volume <root>/volumes/<name>:<name> when that path exists, and every
\* directive with ":" is forwarded unchanged whatever is on disk; when the path
\* of some named directive does not exist the command raises the
\* configuration error and issues no engine call, also when directives before
\* it were valid.
C8_VolumeDirectives ==
    (cmd.name = "dc" /\ parse_volumes(cmd.args).ok) =>
        IF \E i \in DOMAIN Directives : Named(Directives[i]) /\ ~OnDisk(Directives[i])
        THEN /\ pc = "failed"
             /\ error = "ConfigurationError"
             /\ events = <<>>
        ELSE /\ Len(Calls) = 1
             /\ Calls[1].tokens[1] = Str(cmd.command)
             /\ \A i \in DOMAIN Directives :
                    /\ Calls[1].tokens[2 * i] = "--volume"
                    /\ Calls[1].tokens[2 * i + 1] = Forwarded(Directives[i])
             /\ cmd.args = <<<<"-", "-", "v", "o", "l", "u", "m", "e", "=", "f", "o", "o">>>>
                    => Calls[1].tokens[3] = "/r/volumes/foo:foo"
             /\ cmd.args = <<<<"-", "-", "v", "o", "l", "u", "m", "e", "=", "/", "a", ":", "b">>>>
                    => Calls[1].tokens[3] = "/a:b"

C8_Witness ==
    /\ cmd.name = "dc"
    /\ cmd.args = << <<"-", "-", "v", "o", "l", "u", "m", "e", "=", "f", "o", "o">>,
                     <<"-", "-", "v", "o", "l", "u", "m", "e", "=", "b", "a", "r">> >>
    /\ OnDisk(<<"f", "o", "o">>)
    /\ ~OnDisk(<<"b", "a", "r">>)
    /\ pc = "failed"
    /\ error = "ConfigurationError"

\* C9: when the process is not attached to a TTY, every run-style and
\* exec-style call assembled here (run_job in both branches, run, exec) has the
\* flag -T, and when it is attached to one, none of them has it.
C9_NoTtyFlagOnRunAndExec ==
    (cmd.name \in {"run_job", "createuser", "run", "exec"} /\ Calls # <<>>) =>
        (HasToken(Calls[1].tokens, "-T") <=> ~tty)

----------------------------------------------------------------------------
(* Every command *)

====
